---- MODULE Spec2Model ----
(***************************************************************************)
(* pitemp: the shared State store (internal/state), the periodic-task      *)
(* primitive (internal/sync.RepeatUntilCancelled), the sensor poller, the  *)
(* display updaters, the remote fetcher and the main functions that wire   *)
(* them together.                                                          *)
(***************************************************************************)
EXTENDS Integers, Sequences, FiniteSets, TLC

\* ------------------------------------------------------------------ bounds
\* Temperatures, humidities and peer timestamps range over 1..MaxVal.
MaxVal == 1
\* Number of goroutines calling state.Get concurrently in the store model.
NumReaders == 2
\* Number of state.Set calls the writer makes in the store model.
MaxSets == 2

\* ------------------------------------------------------- internal/state
\* The fields of state.State, in declaration order.
Fields == {"Temperature", "Humidity", "IP", "LastSensorUpdate"}

\* The zero value of state.State (the value of the package variable before
\* any Set; time.Time's zero value is modelled as 0, the empty string as "").
ZeroState ==
  [Temperature |-> 0, Humidity |-> 0, IP |-> "", LastSensorUpdate |-> 0]

\* The value the writer passes to its i-th Set call in the store model: the
\* readings differ from each other and from the zero value in every field, so
\* that any mix of two of them is recognisable as a mix.
Reading(i) ==
  [Temperature |-> i, Humidity |-> i, IP |-> ToString(i),
   LastSensorUpdate |-> i]

Readers == 1..NumReaders

VARIABLES
  state,     \* state.State: the stored value (embedded struct of var state)
  mu,        \* state.mu: the sync.RWMutex
  wpc,       \* writer goroutine: position inside Set
  warg,      \* writer goroutine: *s, the argument of the Set in progress
  wleft,     \* writer goroutine: fields of state.State not yet overwritten
  rpc,       \* reader goroutines: position inside Get
  rret,      \* reader goroutines: the result value being filled in
  rleft,     \* reader goroutines: fields not yet copied into the result
  written,   \* the arguments of all Set calls made so far
  rfrom,     \* reader goroutines: Set calls that had returned at the Get call
  \* ---- the process around the store (one main function and its goroutines)
  deployment, \* which main function is running
  cfg,        \* its flags: lcd_enabled, pioled_enabled, quit_after > 0
  proc,       \* the OS process: running, exited, fatal (log.Fatal), panic
  mainPc,     \* position of the main goroutine
  sigPc,      \* position of the goroutine of main that waits for a signal
  quitPc,     \* position of the auto-quit goroutine
  ctxDone,    \* the shared context has been cancelled
  cancels,    \* number of cancel() calls made
  interrupted,\* number of signals buffered in the channel `interrupted`
  sigs,       \* number of SIGINT/SIGTERM the OS has delivered
  now,        \* the wall clock, in interval units
  tpc,        \* per periodic task: position in its loop
  trem,       \* per periodic task: time left on the timer of its select
  tcall,      \* per RepeatUntilCancelled task: when f was last invoked
  tret,       \* per RepeatUntilCancelled task: when f last returned
  tdur,       \* per RepeatUntilCancelled task: how long that call of f took
  tlate,      \* per RepeatUntilCancelled task: calls of f begun after cancel
  dhtErr,     \* dhtUpdater: err of the sensor read of the current tick
  reading,    \* dhtUpdater: temperature, humidity of the current tick
  gauges,     \* tempGauge, humidityGauge, lastUpdateGauge
  cleanups,   \* per display updater: number of cleanup() calls
  dev,        \* pioled.dev: "nil" or "ok"
  busCloser,  \* pioled.busCloser: "nil", "open" or "closed"
  lcdLit,     \* the LCD's backlight is on
  i2cCloser,  \* lcd.i2cCloser: "nil", "open" or "closed"
  resp,       \* fetchState: the *http.Response of the current tick
  getErr,     \* fetchState: http.Get returned an error in the current tick
  decErr,     \* fetchState: Decode returned an error in the current tick
  served,     \* the HTTP handlers: the State the last response was made from
  shown,      \* per display: what its last render put on the screen
  snap        \* lcd.Updater: s, the snapshot state.Get() gave the current tick

storeAux == <<mu, wpc, warg, wleft, rpc, rret, rleft, written, rfrom>>
storeVars == <<state, storeAux>>
procVars ==
  <<deployment, cfg, proc, mainPc, sigPc, quitPc, ctxDone, cancels,
    interrupted, sigs>>
taskVars == <<now, tpc, trem, tcall, tret, tdur, tlate>>
dhtVars == <<dhtErr, reading, gauges>>
hwVars == <<cleanups, dev, busCloser, lcdLit, i2cCloser>>
fetchVars == <<resp, getErr, decErr>>
viewVars == <<served, shown, snap>>
depVars == <<procVars, taskVars, dhtVars, hwVars, fetchVars, viewVars>>
vars == <<storeVars, depVars>>

\* ---------------------------------------------------- tasks and clock
\* The clock runs from 1 (0 stands for time.Time's zero value) to MaxTime.
MaxTime == 4
\* The OS delivers at most MaxSignals SIGINT/SIGTERM to the process.
MaxSignals == 1

\* The periodic activities: the sensor poller, the two display updaters, the
\* remote fetcher and the client's display update.
Tasks == {"dht", "lcd", "oled", "fetch", "upd"}

\* The display updaters that run cleanup() when the context is cancelled.
Displays == {"lcd", "oled"}

\* The flag defaults, in units of one timer interval of the model's clock.
DhtDelay == 1
RefreshDelay == 1
UpdateInterval == 1
FetchInterval == 1

\* The interval each task's timer is created with.
Interval(t) ==
  CASE t = "dht" -> DhtDelay
    [] t = "lcd" -> RefreshDelay
    [] t = "oled" -> UpdateInterval
    [] t = "fetch" -> FetchInterval
    [] OTHER -> UpdateInterval

\* The Prometheus gauges before any Set: 0.
ZeroGauges == [temp |-> 0, hum |-> 0, last |-> 0]

\* What a screen shows, line by line. kind: the sensor lines ("blank" before
\* the first render, "waiting" for the placeholder, "data" for temperature
\* and humidity); stale: the "STALE!" marker (OLED); live: line 1 of the LCD
\* reads "[LCD live]"; age: the freshness that line 1 of the LCD shows.
Frame(kind, temp, hum, stale, live, age) ==
  [kind |-> kind, temp |-> temp, hum |-> hum, stale |-> stale, live |-> live,
   age |-> age]

\* A screen nothing has been rendered on yet.
Blank == Frame("blank", 0, 0, FALSE, FALSE, 0)

\* No HTTP response has been made yet.
NoResponse == [sent |-> FALSE, body |-> ZeroState]

\* resp == nil: what http.Get returns together with a network error.
NilResp == [kind |-> "nil", has |-> {}, bad |-> {}, val |-> ZeroState]

NoFlags == [lcd |-> FALSE, oled |-> FALSE, quit |-> FALSE]

\* The state of the process d before its main has run.
ProcInit(d) ==
  /\ deployment = d
  /\ cfg = NoFlags
  /\ proc = "running"
  /\ mainPc = "start"
  /\ sigPc = "off"
  /\ quitPc = "off"
  /\ ctxDone = FALSE
  /\ cancels = 0
  /\ interrupted = 0
  /\ sigs = 0
  /\ now = 1
  /\ tpc = [t \in Tasks |-> "off"]
  /\ trem = [t \in Tasks |-> 0]
  /\ tcall = [t \in Tasks |-> 0]
  /\ tret = [t \in Tasks |-> 0]
  /\ tdur = [t \in Tasks |-> 0]
  /\ tlate = [t \in Tasks |-> 0]
  /\ dhtErr = FALSE
  /\ reading = <<0, 0>>
  /\ gauges = ZeroGauges
  /\ cleanups = [x \in Displays |-> 0]
  /\ dev = "nil"
  /\ busCloser = "nil"
  /\ lcdLit = FALSE
  /\ i2cCloser = "nil"
  /\ resp = NilResp
  /\ getErr = FALSE
  /\ decErr = FALSE
  /\ served = NoResponse
  /\ shown = [x \in Displays |-> Blank]
  /\ snap = ZeroState

\* No process: the store is exercised on its own.
ProcIdle == ProcInit("none")

\* sync.RWMutex: w = held by a writer, r = number of readers holding it,
\* pending = a writer has called Lock and is waiting for the readers to leave
\* (Go then blocks new RLock calls until that writer has had the lock).
MuFree == [w |-> FALSE, r |-> 0, pending |-> FALSE]

\* A Get that does not wait for the writer (reads without the lock's exclusion).
RLockReady_Unguarded(m) == TRUE

\* RLock can proceed: no writer holds the lock and none is waiting for it.
RLockReady(m) == ~m.w /\ ~m.pending

\* Lock can proceed: nobody holds the lock.
LockReady(m) == ~m.w /\ m.r = 0

StoreInit ==
  /\ state = ZeroState
  /\ mu = MuFree
  /\ wpc = "idle"
  /\ warg = ZeroState
  /\ wleft = {}
  /\ rpc = [r \in Readers |-> "idle"]
  /\ rret = [r \in Readers |-> ZeroState]
  /\ rleft = [r \in Readers |-> {}]
  /\ written = {}
  /\ rfrom = [r \in Readers |-> 0]

\* The number of Set calls that have returned.
SetsReturned == Cardinality(written) - (IF wpc = "idle" THEN 0 ELSE 1)

\* Get is called: the goroutine is about to ask for the read lock.
GetCall(r) ==
  /\ rpc[r] = "idle"
  /\ rpc' = [rpc EXCEPT ![r] = "rlock"]
  /\ rfrom' = [rfrom EXCEPT ![r] = SetsReturned]
  /\ UNCHANGED <<state, mu, wpc, warg, wleft, rret, rleft, written>>
  /\ UNCHANGED depVars

\* Get, line 16: state.mu.RLock() returns with the read lock held.
GetRLock(r) ==
  /\ rpc[r] = "rlock"
  /\ RLockReady(mu)
  /\ mu' = [mu EXCEPT !.r = @ + 1]
  /\ rpc' = [rpc EXCEPT ![r] = "copy"]
  /\ rleft' = [rleft EXCEPT ![r] = Fields]
  /\ rret' = [rret EXCEPT ![r] = ZeroState]
  /\ UNCHANGED <<state, wpc, warg, wleft, written, rfrom>>
  /\ UNCHANGED depVars

\* Get, line 19: return state.State -- the struct is copied field by field
\* into the result; the copy is not one atomic machine operation.
GetCopy(r) ==
  /\ rpc[r] = "copy"
  /\ rleft[r] # {}
  /\ \E f \in rleft[r] :
       /\ rret' = [rret EXCEPT ![r][f] = state[f]]
       /\ rleft' = [rleft EXCEPT ![r] = @ \ {f}]
  /\ UNCHANGED <<state, mu, wpc, warg, wleft, rpc, written, rfrom>>
  /\ UNCHANGED depVars

\* Get, line 17: the deferred state.mu.RUnlock() runs once the result is
\* complete; Get then returns rret[r] to its caller.
GetRUnlock(r) ==
  /\ rpc[r] = "copy"
  /\ rleft[r] = {}
  /\ mu' = [mu EXCEPT !.r = @ - 1]
  /\ rpc' = [rpc EXCEPT ![r] = "returned"]
  /\ UNCHANGED <<state, wpc, warg, wleft, rret, rleft, written, rfrom>>
  /\ UNCHANGED depVars

\* The caller of Get has used the result and may call Get again.
GetDone(r) ==
  /\ rpc[r] = "returned"
  /\ rpc' = [rpc EXCEPT ![r] = "idle"]
  /\ rret' = [rret EXCEPT ![r] = ZeroState]
  /\ rfrom' = [rfrom EXCEPT ![r] = 0]
  /\ UNCHANGED <<state, mu, wpc, warg, wleft, rleft, written>>
  /\ UNCHANGED depVars

\* Set, line 24: state.mu.Lock() is called; from now on new readers wait.
SetCall(s) ==
  /\ wpc = "idle"
  /\ Cardinality(written) < MaxSets
  /\ s = Reading(Cardinality(written) + 1)
  /\ warg' = s
  /\ written' = written \cup {s}
  /\ wpc' = "lock"
  /\ mu' = [mu EXCEPT !.pending = TRUE]
  /\ UNCHANGED <<state, wleft, rpc, rret, rleft, rfrom>>
  /\ UNCHANGED depVars

\* Set, line 24: state.mu.Lock() returns with the lock held.
SetLock ==
  /\ wpc = "lock"
  /\ LockReady(mu)
  /\ mu' = [mu EXCEPT !.w = TRUE, !.pending = FALSE]
  /\ wpc' = "copy"
  /\ wleft' = Fields
  /\ UNCHANGED <<state, warg, rpc, rret, rleft, written, rfrom>>
  /\ UNCHANGED depVars

\* A Set that leaves the stored value as it was.
Assigned_Stale(cur, arg) == cur

\* state.State = *s: the value the assignment stores.
Assigned(cur, arg) == arg

\* Set, line 26: state.State = *s, field by field.
SetCopy ==
  /\ wpc = "copy"
  /\ wleft # {}
  /\ \E f \in wleft :
       /\ state' = [state EXCEPT ![f] = Assigned(state, warg)[f]]
       /\ wleft' = wleft \ {f}
  /\ UNCHANGED <<mu, wpc, warg, rpc, rret, rleft, written, rfrom>>
  /\ UNCHANGED depVars

\* A Set that returns with the lock still held.
Unlocked_Held(m) == m

\* state.mu.Unlock(): the mutex without its writer.
Unlocked(m) == [m EXCEPT !.w = FALSE]

\* Set, line 25: the deferred state.mu.Unlock(); Set returns.
SetUnlock ==
  /\ wpc = "copy"
  /\ wleft = {}
  /\ mu' = Unlocked(mu)
  /\ wpc' = "idle"
  /\ warg' = ZeroState
  /\ UNCHANGED <<state, wleft, rpc, rret, rleft, written, rfrom>>
  /\ UNCHANGED depVars

StoreNext ==
  \/ \E r \in Readers : GetCall(r)
  \/ \E r \in Readers : GetRLock(r)
  \/ \E r \in Readers : GetCopy(r)
  \/ \E r \in Readers : GetRUnlock(r)
  \/ \E r \in Readers : GetDone(r)
  \/ \E s \in {Reading(i) : i \in 1..MaxSets} : SetCall(s)
  \/ SetLock
  \/ SetCopy
  \/ SetUnlock

\* The store before any call, with no process around it.
InitStore == StoreInit /\ ProcIdle

\* One writer and NumReaders readers using the store concurrently.
SpecStore == InitStore /\ [][StoreNext]_vars

\* Scheduling of the store's callers: a goroutine inside Get or Set takes
\* the step it can take, if it can keep taking it (weak fairness; the
\* runtime hands a released lock to the goroutines that wait for it).
\* When Get and Set are called is up to the callers.
FairnessStore ==
  /\ \A r \in Readers :
       /\ WF_vars(GetRLock(r))
       /\ WF_vars(GetCopy(r))
       /\ WF_vars(GetRUnlock(r))
  /\ WF_vars(SetLock)
  /\ WF_vars(SetCopy)
  /\ WF_vars(SetUnlock)

\* SpecStore under fair scheduling.
FairSpecStore == SpecStore /\ FairnessStore

\* ------------------------------------------------ store, seen from a task
\* With Get and Set excluding each other through state.mu (SpecStore), the
\* tasks below read and replace `state` in one step.

\* ------------------------------------------------------------ the clock
Tick ==
  /\ proc = "running"
  /\ mainPc # "start"
  /\ now < MaxTime
  /\ now' = now + 1
  /\ trem' = [t \in Tasks |-> IF trem[t] > 0 THEN trem[t] - 1 ELSE 0]
  /\ UNCHANGED <<state, storeAux, viewVars, fetchVars,
                 procVars, tpc, tcall, tret, tdur, tlate, dhtVars,
                 hwVars>>

\* ------------------------------------------------- the loop of a task
\* for { f(); t := time.NewTimer(interval); select { <-ctx.Done(): return;
\* <-t.C: } } -- the shape of RepeatUntilCancelled and of every Updater.

\* The task whose invocations are timed and counted (tcall, tret, tdur,
\* tlate): dhtUpdater under RepeatUntilCancelled, in the server deployment.
Repeats(t) == deployment = "server" /\ t = "dht"

\* A timer that fires at once, whatever the interval.
NewTimer_Immediate(d) == 0

\* time.NewTimer(d): the time left until the timer's channel is readable.
NewTimer(d) == d

\* case <-t.C: the timer of the task's select has fired.
TimerReady(t) == tpc[t] = "wait" /\ trem[t] = 0

\* A Done channel that is readable although nobody cancelled the context.
DoneReady_Always(c) == TRUE

\* case <-ctx.Done(): readable once the context is cancelled.
DoneReady(c) == c

\* f is invoked: on entry to the loop, or when the select took <-t.C.
CanInvoke(t) ==
  /\ proc = "running"
  /\ tpc[t] = "entry" \/ TimerReady(t)

Invoked(t) ==
  /\ tpc' = [tpc EXCEPT ![t] = "busy"]
  /\ trem' = [trem EXCEPT ![t] = 0]
  /\ tcall' = IF Repeats(t) THEN [tcall EXCEPT ![t] = now] ELSE tcall
  /\ tlate' = IF Repeats(t) /\ ctxDone
                THEN [tlate EXCEPT ![t] = @ + 1] ELSE tlate
  /\ UNCHANGED <<now, tret, tdur>>

\* f has returned: the timer is created and the task blocks in the select.
Returned(t) ==
  /\ tpc' = [tpc EXCEPT ![t] = "wait"]
  /\ trem' = [trem EXCEPT ![t] = NewTimer(Interval(t))]
  /\ tret' = IF Repeats(t) THEN [tret EXCEPT ![t] = now] ELSE tret
  /\ tdur' = IF Repeats(t) THEN [tdur EXCEPT ![t] = now - tcall[t]] ELSE tdur
  /\ UNCHANGED <<now, tcall, tlate>>

\* A loop that looks at ctx.Done() while f is running, too.
AtSelect_Preempt(pc) == pc \in {"wait", "busy"}

\* The only place where the loop looks at ctx.Done(): the select that
\* follows the return of f and the creation of the timer.
AtSelect(pc) == pc = "wait"

\* The select takes <-ctx.Done(): a display updater calls cleanup(), any
\* other task returns.
SelectDone(t) ==
  /\ proc = "running"
  /\ AtSelect(tpc[t])
  /\ DoneReady(ctxDone)
  /\ trem' = [trem EXCEPT ![t] = 0]
  /\ IF t \in Displays
       THEN /\ tpc' = [tpc EXCEPT ![t] = "cleanup"]
            /\ cleanups' = [cleanups EXCEPT ![t] = @ + 1]
       ELSE /\ tpc' = [tpc EXCEPT ![t] = "done"]
            /\ UNCHANGED cleanups
  /\ UNCHANGED <<state, storeAux, viewVars, fetchVars,
                 procVars, now, tcall, tret, tdur, tlate, dhtVars,
                 dev, busCloser, lcdLit, i2cCloser>>

\* ------------------------------------------------------------ dhtUpdater
\* State{Temperature, Humidity, LastSensorUpdate: time.Now()}
NewReading(t, h, at) ==
  [Temperature |-> t, Humidity |-> h, IP |-> "", LastSensorUpdate |-> at]

\* A poller that clears the store when the sensor read fails.
DhtOnError_Clear(st) == ZeroState

\* The stored value after a failed read: the error is logged, nothing else.
DhtOnError(st) == st

\* dht.ReadDHTxxWithRetry is called; it blocks the poller.
DhtInvoke ==
  /\ CanInvoke("dht")
  /\ Invoked("dht")
  /\ dhtErr' = FALSE
  /\ reading' = <<0, 0>>
  /\ UNCHANGED <<state, storeAux, viewVars,
                 fetchVars, procVars, gauges, hwVars>>

\* err != nil: log.Printf("Failed to read DHT11: %v", err)
DhtFail ==
  /\ proc = "running"
  /\ tpc["dht"] = "busy"
  /\ dhtErr' = TRUE
  /\ state' = DhtOnError(state)
  /\ Returned("dht")
  /\ UNCHANGED <<storeAux, viewVars,
                 fetchVars, procVars, reading, gauges, hwVars>>

\* err == nil: state.Set(&state.State{...})
DhtOk(t, h) ==
  /\ proc = "running"
  /\ tpc["dht"] = "busy"
  /\ reading' = <<t, h>>
  /\ state' = NewReading(t, h, now)
  /\ tpc' = [tpc EXCEPT !["dht"] = "gauges"]
  /\ UNCHANGED <<storeAux, viewVars, fetchVars,
                 procVars, now, trem, tcall, tret, tdur, tlate, dhtErr,
                 gauges, hwVars>>

\* A gauge that is set to 0 whatever was measured.
GaugeValue_Zero(v) == 0

\* float64(temperature), float64(humidity): the float32 value, exactly.
GaugeValue(v) == v

\* tempGauge.Set, humidityGauge.Set, lastUpdateGauge.Set(time.Now().Unix())
DhtGauges ==
  /\ proc = "running"
  /\ tpc["dht"] = "gauges"
  /\ gauges' = [temp |-> GaugeValue(reading[1]),
                hum |-> GaugeValue(reading[2]),
                last |-> now]
  /\ Returned("dht")
  /\ UNCHANGED <<state, storeAux, viewVars,
                 fetchVars, procVars, dhtErr, reading, hwVars>>

\* ------------------------------------------------------------ lcd.Updater
\* The tick begins: state.Get(), then four ShowMessage calls.
LcdInvoke ==
  /\ CanInvoke("lcd")
  /\ Invoked("lcd")
  /\ UNCHANGED <<state, storeAux, viewVars,
                 fetchVars, procVars, dhtVars, hwVars>>

\* The four lines have been written; a ShowMessage error is only logged.
LcdReturn ==
  /\ proc = "running"
  /\ tpc["lcd"] = "busy"
  /\ Returned("lcd")
  /\ UNCHANGED <<state, storeAux, viewVars,
                 fetchVars, procVars, dhtVars, hwVars>>

\* lcd.cleanup(): BacklightOff (an error is logged), i2cCloser.Close().
LcdCleanup(offOk) ==
  /\ proc = "running"
  /\ tpc["lcd"] = "cleanup"
  /\ lcdLit' = IF offOk THEN FALSE ELSE lcdLit
  /\ i2cCloser' = "closed"
  /\ tpc' = [tpc EXCEPT !["lcd"] = "done"]
  /\ UNCHANGED <<state, storeAux, viewVars, fetchVars,
                 procVars, now, trem, tcall, tret, tdur, tlate,
                 dhtVars,
                 cleanups, dev, busCloser>>

\* --------------------------------------------------------- pioled.Updater
\* display() is called.
OledInvoke ==
  /\ CanInvoke("oled")
  /\ Invoked("oled")
  /\ UNCHANGED <<state, storeAux, viewVars,
                 fetchVars, procVars, dhtVars, hwVars>>

\* display(): with dev == nil a warning is logged; otherwise the frame is
\* rendered and drawn, and a Draw error ends the process (log.Fatal).
OledReturn(drawOk) ==
  /\ proc = "running"
  /\ tpc["oled"] = "busy"
  /\ IF dev = "nil" \/ drawOk
       THEN /\ Returned("oled")
            /\ UNCHANGED procVars
       ELSE /\ proc' = "fatal"
            /\ UNCHANGED <<deployment, cfg, mainPc, sigPc, quitPc, ctxDone,
                           cancels, interrupted, sigs, taskVars>>
  /\ UNCHANGED <<state, storeAux, viewVars, fetchVars, dhtVars, hwVars>>

\* pioled.cleanup(): ClearDisplay is true, so dev.Bounds() and dev.Draw are
\* called, which dereference dev; then busCloser.Close(). With dev or
\* busCloser nil the goroutine panics, which ends the process.
OledCleanup ==
  /\ proc = "running"
  /\ tpc["oled"] = "cleanup"
  /\ IF dev = "nil" \/ busCloser = "nil"
       THEN /\ proc' = "panic"
            /\ UNCHANGED <<tpc, busCloser>>
       ELSE /\ busCloser' = "closed"
            /\ tpc' = [tpc EXCEPT !["oled"] = "done"]
            /\ UNCHANGED proc
  /\ UNCHANGED <<state, storeAux, viewVars, fetchVars,
                 deployment, cfg, mainPc, sigPc, quitPc,
                 ctxDone, cancels, interrupted, sigs, now, trem, tcall, tret,
                 tdur, tlate,
                 dhtVars, cleanups, dev, lcdLit, i2cCloser>>

\* ---------------------------------------------------------------- signals
\* interrupted := make(chan os.Signal, 1)
InterruptedCap == 1

\* The OS delivers SIGINT or SIGTERM: signal.Notify's handler sends without
\* blocking and drops the signal when the channel is full.
Signal ==
  /\ proc = "running"
  /\ mainPc # "start"
  /\ sigs < MaxSignals
  /\ sigs' = sigs + 1
  /\ interrupted' =
       IF interrupted < InterruptedCap THEN interrupted + 1 ELSE interrupted
  /\ UNCHANGED <<state, storeAux, viewVars, fetchVars,
                 deployment, cfg, proc, mainPc, sigPc,
                 quitPc, ctxDone, cancels, taskVars, dhtVars, hwVars>>

\* The auto-quit goroutine: time.Sleep(*quitAfter) has elapsed.
QuitWake ==
  /\ proc = "running"
  /\ quitPc = "sleep"
  /\ quitPc' = "send"
  /\ UNCHANGED <<state, storeAux, viewVars, fetchVars,
                 deployment, cfg, proc, mainPc, sigPc,
                 ctxDone, cancels, interrupted, sigs, taskVars, dhtVars,
                 hwVars>>

\* interrupted <- syscall.SIGINT: blocks while the channel is full.
QuitSend ==
  /\ proc = "running"
  /\ quitPc = "send"
  /\ interrupted < InterruptedCap
  /\ interrupted' = interrupted + 1
  /\ quitPc' = "done"
  /\ UNCHANGED <<state, storeAux, viewVars, fetchVars,
                 deployment, cfg, proc, mainPc, sigPc,
                 ctxDone, cancels, sigs, taskVars, dhtVars, hwVars>>

\* ------------------------------------------------------------------ main
\* The outcomes of pioled.Initialize: "ok"; "nobus" (host.Init or i2creg.Open
\* failed: dev and busCloser stay nil); "nodev" (ssd1306.NewI2C failed: the
\* bus is open, dev is nil).
OledInits == {"ok", "nobus", "nodev"}

\* The deployments checked together: the HTTP server (RepeatUntilCancelled
\* around dhtUpdater) and the combined one (displays, WaitGroup). main.go,
\* which has the displays and no WaitGroup, is deployment "maingo".
SensorDeployments == {"server", "combined"}

\* main of the combined deployment and of main.go, up to the select: the
\* displays are initialised and the activities are spawned.
MainStartCombined(lcdOn, oledOn, quitOn, lcdInitOk, oledInit) ==
  /\ proc = "running"
  /\ deployment \in {"combined", "maingo"}
  /\ mainPc = "start"
  /\ lcdOn \/ lcdInitOk
  /\ oledOn \/ oledInit = "ok"
  /\ cfg' = [lcd |-> lcdOn, oled |-> oledOn, quit |-> quitOn]
  /\ IF lcdOn /\ ~lcdInitOk
       THEN \* log.Fatal(err)
            /\ proc' = "fatal"
            /\ UNCHANGED <<mainPc, quitPc, tpc, dev, busCloser, lcdLit,
                           i2cCloser>>
       ELSE /\ lcdLit' = lcdOn
            /\ i2cCloser' = IF lcdOn THEN "open" ELSE "nil"
            /\ dev' = IF oledOn /\ oledInit = "ok" THEN "ok" ELSE "nil"
            /\ busCloser' =
                 IF oledOn /\ oledInit \in {"ok", "nodev"}
                   THEN "open" ELSE "nil"
            /\ quitPc' = IF quitOn THEN "sleep" ELSE "off"
            /\ tpc' = [t \in Tasks |->
                         IF \/ t = "dht"
                            \/ t = "lcd" /\ lcdOn
                            \/ t = "oled" /\ oledOn
                           THEN "entry" ELSE "off"]
            /\ mainPc' = "select"
            /\ UNCHANGED proc
  /\ UNCHANGED <<state, storeAux, viewVars, fetchVars,
                 deployment, sigPc, ctxDone, cancels,
                 interrupted, sigs, now, trem, tcall, tret, tdur, tlate,
                 dhtVars,
                 cleanups>>

\* wg.Wait() returns: every spawned activity has called wg.Done().
WgZero == \A t \in Tasks : tpc[t] \in {"off", "done"}

\* A main that goes back to its select after cancel().
AfterCancel_Loop(d) == "select"

\* Where main goes after cancel(): the combined deployment waits for the
\* WaitGroup, main.go returns.
AfterCancel(d) == IF d = "combined" THEN "wgwait" ELSE "returned"

\* select { case <-interrupted: cancel() }
MainCancel ==
  /\ proc = "running"
  /\ mainPc = "select"
  /\ interrupted > 0
  /\ interrupted' = interrupted - 1
  /\ ctxDone' = TRUE
  /\ cancels' = cancels + 1
  /\ mainPc' = AfterCancel(deployment)
  /\ UNCHANGED <<state, storeAux, viewVars, fetchVars,
                 deployment, cfg, proc, sigPc, quitPc, sigs,
                 taskVars, dhtVars, hwVars>>

\* main of main.go returns after cancel(), waiting for nothing: the process
\* exits, whatever its goroutines are doing.
MainExit ==
  /\ proc = "running"
  /\ deployment = "maingo"
  /\ mainPc = "returned"
  /\ proc' = "exited"
  /\ UNCHANGED <<state, storeAux, viewVars,
                 fetchVars, deployment, cfg, mainPc, sigPc,
                 quitPc, ctxDone, cancels, interrupted, sigs, taskVars,
                 dhtVars, hwVars>>

\* wg.Wait() has returned and main returns: the process exits.
MainReturn ==
  /\ proc = "running"
  /\ mainPc = "wgwait"
  /\ WgZero
  /\ mainPc' = "returned"
  /\ proc' = "exited"
  /\ UNCHANGED <<state, storeAux, viewVars, fetchVars,
                 deployment, cfg, sigPc, quitPc, ctxDone,
                 cancels, interrupted, sigs, taskVars, dhtVars, hwVars>>

\* main of the server deployment, up to the call of RepeatUntilCancelled,
\* which main runs itself.
MainStartServer ==
  /\ proc = "running"
  /\ deployment = "server"
  /\ mainPc = "start"
  /\ mainPc' = "repeat"
  /\ sigPc' = "wait"
  /\ tpc' = [tpc EXCEPT !["dht"] = "entry"]
  /\ UNCHANGED <<state, storeAux, viewVars, fetchVars,
                 deployment, cfg, proc, quitPc, ctxDone,
                 cancels, interrupted, sigs, now, trem, tcall, tret, tdur,
                 tlate,
                 dhtVars,
                 hwVars>>

\* go func() { <-interrupted; cancel() }()
SigCancel ==
  /\ proc = "running"
  /\ sigPc = "wait"
  /\ interrupted > 0
  /\ interrupted' = interrupted - 1
  /\ ctxDone' = TRUE
  /\ cancels' = cancels + 1
  /\ sigPc' = "done"
  /\ UNCHANGED <<state, storeAux, viewVars, fetchVars,
                 deployment, cfg, proc, mainPc, quitPc,
                 sigs, taskVars, dhtVars, hwVars>>

\* A main that goes on to srv.Shutdown whatever the poll loop is doing.
LoopReturned_Early(pc) == TRUE

\* main calls sync.RepeatUntilCancelled itself, not in a goroutine: the
\* statement after the call runs once the loop has returned.
LoopReturned(pc) == pc = "done"

\* RepeatUntilCancelled has returned: srv.Shutdown, whose error panics.
ServerShutdown(ok) ==
  /\ proc = "running"
  /\ mainPc = "repeat"
  /\ LoopReturned(tpc["dht"])
  /\ mainPc' = IF ok THEN "returned" ELSE mainPc
  /\ proc' = IF ok THEN "exited" ELSE "panic"
  /\ UNCHANGED <<state, storeAux, viewVars, fetchVars,
                 deployment, cfg, sigPc, quitPc, ctxDone,
                 cancels, interrupted, sigs, taskVars, dhtVars, hwVars>>

\* ---------------------------------------------------- the remote fetcher
\* What a response body can hold. kind "json": a JSON object with the keys
\* `has`, of which the keys `bad` carry a value of the wrong type, the others
\* the fields of val. kind "garbage": not a JSON value. kind "closed": the
\* body of the response that http.Get returns next to a redirect error.
JsonBody(has, bad, v) ==
  [kind |-> "json", has |-> has, bad |-> bad, val |-> Reading(v)]

GarbageBody == [kind |-> "garbage", has |-> {}, bad |-> {}, val |-> ZeroState]

ClosedBody == [kind |-> "closed", has |-> {}, bad |-> {}, val |-> ZeroState]

\* The bodies a peer can answer with.
Bodies ==
  {GarbageBody} \cup
  UNION {{JsonBody(has, bad, v) : bad \in SUBSET has, v \in 1..MaxVal} :
           has \in SUBSET Fields}

\* The outcomes of http.Get: a response; an error with a nil response; an
\* error of the redirect policy, with a response whose body is closed.
GetOutcomes == {"ok", "neterr", "redirect"}

\* var s state.State; err := json.NewDecoder(body).Decode(&s): s starts as
\* the zero value, a key of the object sets its field, a key that is absent
\* or whose value has the wrong type leaves its field alone, and err is set
\* when a value had the wrong type or the body is no JSON value.
Decode(body) ==
  IF body.kind = "json"
    THEN [s |-> [f \in Fields |->
                   IF f \in body.has \ body.bad
                     THEN body.val[f] ELSE ZeroState[f]],
          err |-> body.bad # {}]
    ELSE [s |-> ZeroState, err |-> TRUE]

\* A fetcher that stamps the decoded State with the local clock.
FetchedState_Restamp(s, at) == [s EXCEPT !.LastSensorUpdate = at]

\* state.Set(&s): the value stored is the decoded s itself.
FetchedState(s, at) == s

\* log.Print("Fetching state"); http.Get(server) is called and blocks.
FetchInvoke ==
  /\ CanInvoke("fetch")
  /\ Invoked("fetch")
  /\ resp' = NilResp
  /\ getErr' = FALSE
  /\ decErr' = FALSE
  /\ UNCHANGED <<state, storeAux, viewVars, procVars, dhtVars, hwVars>>

\* resp, err := http.Get(server); if err != nil { log.Printf(...) } -- and
\* the function goes on.
FetchGetReturn(outcome, body) ==
  /\ proc = "running"
  /\ tpc["fetch"] = "busy"
  /\ resp' = CASE outcome = "ok" -> body
               [] outcome = "neterr" -> NilResp
               [] OTHER -> ClosedBody
  /\ getErr' = (outcome # "ok")
  /\ tpc' = [tpc EXCEPT !["fetch"] = "decode"]
  /\ UNCHANGED <<state, storeAux, viewVars,
                 procVars, now, trem, tcall, tret, tdur, tlate,
                 decErr, dhtVars, hwVars>>

\* json.NewDecoder(resp.Body).Decode(&s), its error logged; state.Set(&s);
\* resp goes out of scope.
\* resp.Body with resp == nil is a nil pointer dereference: the goroutine
\* panics and the process dies.
FetchDecode ==
  /\ proc = "running"
  /\ tpc["fetch"] = "decode"
  /\ IF resp = NilResp
       THEN /\ proc' = "panic"
            /\ UNCHANGED <<state, resp, decErr, taskVars>>
       ELSE /\ decErr' = Decode(resp).err
            /\ state' = FetchedState(Decode(resp).s, now)
            /\ resp' = NilResp
            /\ Returned("fetch")
            /\ UNCHANGED proc
  /\ UNCHANGED <<storeAux, viewVars,
                 deployment, cfg, mainPc, sigPc, quitPc, ctxDone,
                 cancels, interrupted, sigs, getErr, dhtVars, hwVars>>

\* The updater passed to client.Run is invoked.
UpdInvoke ==
  /\ CanInvoke("upd")
  /\ Invoked("upd")
  /\ UNCHANGED <<state, storeAux, viewVars,
                 fetchVars, procVars, dhtVars, hwVars>>

\* The updater returns.
UpdReturn ==
  /\ proc = "running"
  /\ tpc["upd"] = "busy"
  /\ Returned("upd")
  /\ UNCHANGED <<state, storeAux, viewVars,
                 fetchVars, procVars, dhtVars, hwVars>>

\* main of the client, up to client.Run's <-interrupted: pioled.Initialize
\* (os.Exit(1) when it fails), then the two RepeatUntilCancelled goroutines.
MainStartClient(initOk) ==
  /\ proc = "running"
  /\ deployment = "client"
  /\ mainPc = "start"
  /\ IF initOk
       THEN /\ mainPc' = "recv"
            /\ tpc' = [t \in Tasks |->
                         IF t \in {"fetch", "upd"} THEN "entry" ELSE "off"]
            /\ dev' = "ok"
            /\ busCloser' = "open"
            /\ UNCHANGED proc
       ELSE /\ proc' = "exited"
            /\ UNCHANGED <<mainPc, tpc, dev, busCloser>>
  /\ UNCHANGED <<state, storeAux, viewVars,
                 fetchVars, deployment, cfg, sigPc, quitPc,
                 ctxDone, cancels, interrupted, sigs, now, trem, tcall, tret,
                 tdur, tlate, dhtVars, cleanups, lcdLit, i2cCloser>>

\* <-interrupted; cancel() -- client.Run returns into main's defers.
ClientCancel ==
  /\ proc = "running"
  /\ mainPc = "recv"
  /\ interrupted > 0
  /\ interrupted' = interrupted - 1
  /\ ctxDone' = TRUE
  /\ cancels' = cancels + 1
  /\ mainPc' = "defers"
  /\ UNCHANGED <<state, storeAux, viewVars,
                 fetchVars, deployment, cfg, proc, sigPc,
                 quitPc, sigs, taskVars, dhtVars, hwVars>>

\* main's defers, last registered first: srv.Shutdown, then pioled.Cleanup
\* (lcd.Cleanup in cmd/pitemp_lcd), which releases the display's bus.
ClientCleanup ==
  /\ proc = "running"
  /\ mainPc = "defers"
  /\ mainPc' = "cleaned"
  /\ busCloser' = "closed"
  /\ UNCHANGED <<state, storeAux, viewVars,
                 fetchVars, deployment, cfg, proc, sigPc,
                 quitPc, ctxDone, cancels, interrupted, sigs, taskVars,
                 dhtVars, cleanups, dev, lcdLit, i2cCloser>>

\* main returns: the process exits.
ClientExit ==
  /\ proc = "running"
  /\ mainPc = "cleaned"
  /\ mainPc' = "returned"
  /\ proc' = "exited"
  /\ UNCHANGED <<state, storeAux, viewVars,
                 fetchVars, deployment, cfg, sigPc, quitPc,
                 ctxDone, cancels, interrupted, sigs, taskVars, dhtVars,
                 hwVars>>

\* ------------------------------------------------ the readers' output
\* pioled.StaleTime, scaled to the model's clock: longer than one poll
\* interval, short enough for a reading to grow stale before MaxTime.
StaleTime == 2

\* A Get that hands out the stored value and resets the store.
AfterGet_Reset(st) == ZeroState

\* The store after state.Get(): Get returns a copy, the store is as before.
AfterGet(st) == st

\* s.LastSensorUpdate.IsZero()
IsZero(at) == at = 0

\* A render that never marks a reading as stale.
IsStale_Never(s, at) == FALSE

\* time.Since(s.LastSensorUpdate) > StaleTime
IsStale(s, at) == at - s.LastSensorUpdate > StaleTime

\* A render that shows the sensor lines whatever the snapshot holds.
OledLines_NoPlaceholder(s, at) ==
  Frame("data", s.Temperature, s.Humidity, IsStale(s, at), FALSE, 0)

\* pioled.render, lines 114-131: "waiting for" / "sensor data", replaced by
\* "Temp: ..." (with " STALE!" when the reading is old) and "Humid: ..."
\* when the snapshot has a LastSensorUpdate.
OledLines(s, at) ==
  IF IsZero(s.LastSensorUpdate)
    THEN Frame("waiting", 0, 0, FALSE, FALSE, 0)
    ELSE Frame("data", s.Temperature, s.Humidity, IsStale(s, at), FALSE, 0)

\* lcd.Updater, lines 105-139: line 1 is "[LCD live]" or the freshness of
\* the snapshot, line 3 is "[waiting for dht11]" or temperature and humidity.
LcdLines(s, at) ==
  IF IsZero(s.LastSensorUpdate)
    THEN Frame("waiting", 0, 0, FALSE, TRUE, 0)
    ELSE Frame("data", s.Temperature, s.Humidity, FALSE, FALSE,
               at - s.LastSensorUpdate)

\* One frame of the OLED: render() takes a snapshot with state.Get() and
\* draws the lines; display() and HTTPResponse both go through it.
OledRender ==
  /\ proc = "running"
  /\ deployment = "view"
  /\ mainPc # "start"
  /\ shown' = [shown EXCEPT !["oled"] = OledLines(state, now)]
  /\ state' = AfterGet(state)
  /\ UNCHANGED <<storeAux, served, snap, procVars, taskVars, dhtVars, hwVars,
                 fetchVars>>

\* One tick of lcd.Updater up to its timer: state.Get(), four ShowMessage.
LcdRender ==
  /\ proc = "running"
  /\ deployment = "view"
  /\ mainPc # "start"
  /\ shown' = [shown EXCEPT !["lcd"] = LcdLines(state, now)]
  /\ state' = AfterGet(state)
  /\ UNCHANGED <<storeAux, served, snap, procVars, taskVars, dhtVars, hwVars,
                 fetchVars>>

\* serveHTTP / serveJSON: the response is made from state.Get().
ServeHTTP ==
  /\ proc = "running"
  /\ deployment = "view"
  /\ mainPc # "start"
  /\ served' = [sent |-> TRUE, body |-> state]
  /\ state' = AfterGet(state)
  /\ UNCHANGED <<storeAux, shown, snap, procVars, taskVars, dhtVars, hwVars,
                 fetchVars>>

\* main, as far as the store's readers and its writer are concerned: the
\* handlers are registered and the poller runs.
ViewStart ==
  /\ proc = "running"
  /\ deployment = "view"
  /\ mainPc = "start"
  /\ mainPc' = "select"
  /\ tpc' = [tpc EXCEPT !["dht"] = "entry"]
  /\ UNCHANGED <<state, storeAux, viewVars, deployment, cfg, proc, sigPc,
                 quitPc, ctxDone, cancels, interrupted, sigs, now, trem,
                 tcall, tret, tdur, tlate, dhtVars, hwVars, fetchVars>>

Init ==
  /\ StoreInit
  /\ \E d \in SensorDeployments : ProcInit(d)

Next ==
  \/ Tick
  \/ Signal
  \/ QuitWake
  \/ QuitSend
  \/ \E lcdOn, oledOn, quitOn, lcdInitOk \in BOOLEAN :
       \E oledInit \in OledInits :
         MainStartCombined(lcdOn, oledOn, quitOn, lcdInitOk, oledInit)
  \/ MainCancel
  \/ MainReturn
  \/ MainStartServer
  \/ SigCancel
  \/ \E ok \in BOOLEAN : ServerShutdown(ok)
  \/ DhtInvoke
  \/ DhtFail
  \/ \E t, h \in 1..MaxVal : DhtOk(t, h)
  \/ DhtGauges
  \/ LcdInvoke
  \/ LcdReturn
  \/ \E offOk \in BOOLEAN : LcdCleanup(offOk)
  \/ OledInvoke
  \/ \E drawOk \in BOOLEAN : OledReturn(drawOk)
  \/ OledCleanup
  \/ \E t \in Tasks : SelectDone(t)

\* The server and the combined deployment, each from the start of its main.
Spec == Init /\ [][Next]_vars

\* Scheduling: every goroutine that can take a step eventually takes one,
\* an action in flight eventually returns, and a select whose Done case is
\* ready again and again eventually takes it (Go picks among the ready
\* cases of a select at random).
Fairness ==
  /\ WF_vars(DhtInvoke)
  /\ WF_vars(DhtFail \/ \E t, h \in 1..MaxVal : DhtOk(t, h))
  /\ WF_vars(DhtGauges)
  /\ WF_vars(LcdInvoke)
  /\ WF_vars(LcdReturn)
  /\ WF_vars(\E offOk \in BOOLEAN : LcdCleanup(offOk))
  /\ WF_vars(OledInvoke)
  /\ WF_vars(\E drawOk \in BOOLEAN : OledReturn(drawOk))
  /\ WF_vars(OledCleanup)
  /\ \A t \in Tasks : SF_vars(SelectDone(t))
  /\ WF_vars(MainCancel)
  /\ WF_vars(MainReturn)
  /\ WF_vars(SigCancel)

\* Spec under fair scheduling.
FairSpec == Spec /\ Fairness

InitServer == StoreInit /\ ProcInit("server")

NextServer ==
  \/ Tick
  \/ Signal
  \/ MainStartServer
  \/ SigCancel
  \/ \E ok \in BOOLEAN : ServerShutdown(ok)
  \/ DhtInvoke
  \/ DhtFail
  \/ \E t, h \in 1..MaxVal : DhtOk(t, h)
  \/ DhtGauges
  \/ SelectDone("dht")

\* Scheduling in the server deployment: the signal goroutine and the poll
\* loop take the steps they can take, the sensor read returns, and the
\* select takes its Done case when that is ready again and again.
FairnessServer ==
  /\ WF_vars(SigCancel)
  /\ WF_vars(DhtInvoke)
  /\ WF_vars(DhtFail \/ \E t, h \in 1..MaxVal : DhtOk(t, h))
  /\ WF_vars(DhtGauges)
  /\ SF_vars(SelectDone("dht"))
  /\ WF_vars(\E ok \in BOOLEAN : ServerShutdown(ok))

\* The server deployment alone, from the start of its main, fairly scheduled.
FairSpecServer == InitServer /\ [][NextServer]_vars /\ FairnessServer

InitMainGo == StoreInit /\ ProcInit("maingo")

NextMainGo ==
  \/ Tick
  \/ Signal
  \/ QuitWake
  \/ QuitSend
  \/ \E lcdOn, oledOn, quitOn, lcdInitOk \in BOOLEAN :
       \E oledInit \in OledInits :
         MainStartCombined(lcdOn, oledOn, quitOn, lcdInitOk, oledInit)
  \/ MainCancel
  \/ MainExit
  \/ DhtInvoke
  \/ DhtFail
  \/ \E t, h \in 1..MaxVal : DhtOk(t, h)
  \/ DhtGauges
  \/ LcdInvoke
  \/ LcdReturn
  \/ \E offOk \in BOOLEAN : LcdCleanup(offOk)
  \/ OledInvoke
  \/ \E drawOk \in BOOLEAN : OledReturn(drawOk)
  \/ OledCleanup
  \/ \E t \in {"dht", "lcd", "oled"} : SelectDone(t)

\* src/main.go from the start of main: main returns right after cancel(),
\* its goroutines run on until the process has exited.
SpecMainGo == InitMainGo /\ [][NextMainGo]_vars

InitClient == StoreInit /\ ProcInit("client")

NextClient ==
  \/ Tick
  \/ Signal
  \/ \E initOk \in BOOLEAN : MainStartClient(initOk)
  \/ ClientCancel
  \/ ClientCleanup
  \/ ClientExit
  \/ FetchInvoke
  \/ \E outcome \in GetOutcomes : \E body \in Bodies :
       FetchGetReturn(outcome, body)
  \/ FetchDecode
  \/ UpdInvoke
  \/ UpdReturn
  \/ \E t \in {"fetch", "upd"} : SelectDone(t)

\* The client deployment from the start of its main.
SpecClient == InitClient /\ [][NextClient]_vars

\* The context passed to client.Run is cancelled by its owner: the context
\* that Run derives from it with context.WithCancel is cancelled with it,
\* without any call of Run's own cancel().
ParentCancel ==
  /\ proc = "running"
  /\ deployment = "client"
  /\ mainPc = "recv"
  /\ ~ctxDone
  /\ ctxDone' = TRUE
  /\ UNCHANGED <<state, storeAux, viewVars, fetchVars, deployment, cfg, proc,
                 mainPc, sigPc, quitPc, cancels, interrupted, sigs, taskVars,
                 dhtVars, hwVars>>

NextRun ==
  \/ Tick
  \/ Signal
  \/ \E initOk \in BOOLEAN : MainStartClient(initOk)
  \/ ParentCancel
  \/ ClientCancel
  \/ ClientCleanup
  \/ ClientExit
  \/ FetchInvoke
  \/ \E outcome \in GetOutcomes : \E body \in Bodies :
       FetchGetReturn(outcome, body)
  \/ FetchDecode
  \/ UpdInvoke
  \/ UpdReturn
  \/ \E t \in {"fetch", "upd"} : SelectDone(t)

\* Scheduling of the client: Run and its two goroutines take the steps they
\* can take, an invocation in flight returns, and a select takes its Done
\* case when that is ready again and again. Signals come when they come.
FairnessRun ==
  /\ WF_vars(ClientCancel)
  /\ WF_vars(ClientCleanup)
  /\ WF_vars(ClientExit)
  /\ WF_vars(FetchInvoke)
  /\ WF_vars(\E outcome \in GetOutcomes : \E body \in Bodies :
               FetchGetReturn(outcome, body))
  /\ WF_vars(FetchDecode)
  /\ WF_vars(UpdInvoke)
  /\ WF_vars(UpdReturn)
  /\ \A t \in {"fetch", "upd"} : SF_vars(SelectDone(t))

\* client.Run called with a context that its caller may cancel, fairly
\* scheduled.
FairSpecRun == InitClient /\ [][NextRun]_vars /\ FairnessRun

\* ------------------------------------ lcd.Updater's tick, line by line
\* main, as far as one display and the poller are concerned: both loops
\* are started.
LcdTickStart ==
  /\ proc = "running"
  /\ deployment = "lcdtick"
  /\ mainPc = "start"
  /\ mainPc' = "select"
  /\ tpc' = [t \in Tasks |-> IF t \in {"dht", "lcd"} THEN "entry" ELSE "off"]
  /\ UNCHANGED <<state, storeAux, viewVars, deployment, cfg, proc, sigPc,
                 quitPc, ctxDone, cancels, interrupted, sigs, now, trem,
                 tcall, tret, tdur, tlate, dhtVars, hwVars, fetchVars>>

\* s := state.Get() -- the tick's one call of Get.
LcdGet ==
  /\ proc = "running"
  /\ deployment = "lcdtick"
  /\ tpc["lcd"] = "busy"
  /\ snap' = state
  /\ state' = AfterGet(state)
  /\ tpc' = [tpc EXCEPT !["lcd"] = "line1"]
  /\ UNCHANGED <<storeAux, served, shown, procVars, now, trem, tcall, tret,
                 tdur, tlate, dhtVars, hwVars, fetchVars>>

\* Line 1: "[LCD live]", or "Freshness: ..." when s has a LastSensorUpdate.
LcdLine1 ==
  /\ proc = "running"
  /\ deployment = "lcdtick"
  /\ tpc["lcd"] = "line1"
  /\ shown' = [shown EXCEPT !["lcd"].live = LcdLines(snap, now).live,
                            !["lcd"].age = LcdLines(snap, now).age]
  /\ tpc' = [tpc EXCEPT !["lcd"] = "line3"]
  /\ UNCHANGED <<state, storeAux, served, snap, procVars, now, trem, tcall,
                 tret, tdur, tlate, dhtVars, hwVars, fetchVars>>

\* A tick that looks at the store again for its third line.
Line3Source_Reread(s, cur) == cur

\* What line 3 is made from: s, the snapshot taken at the top of the tick.
Line3Source(s, cur) == s

\* Line 3: "[waiting for dht11]", or temperature and humidity when s has a
\* LastSensorUpdate; line 4 (the time) follows, then the timer is created.
LcdLine3 ==
  /\ proc = "running"
  /\ deployment = "lcdtick"
  /\ tpc["lcd"] = "line3"
  /\ LET f == LcdLines(Line3Source(snap, state), now)
     IN shown' = [shown EXCEPT !["lcd"].kind = f.kind,
                               !["lcd"].temp = f.temp,
                               !["lcd"].hum = f.hum]
  /\ Returned("lcd")
  /\ UNCHANGED <<state, storeAux, served, snap, procVars, dhtVars, hwVars,
                 fetchVars>>

InitLcdTick == StoreInit /\ ProcInit("lcdtick")

NextLcdTick ==
  \/ LcdTickStart
  \/ Tick
  \/ DhtInvoke
  \/ DhtFail
  \/ \E t, h \in 1..MaxVal : DhtOk(t, h)
  \/ DhtGauges
  \/ LcdInvoke
  \/ LcdGet
  \/ LcdLine1
  \/ LcdLine3

\* lcd.Updater next to the poller, the lines of a tick written one by one.
SpecLcdTick == InitLcdTick /\ [][NextLcdTick]_vars

InitView == StoreInit /\ ProcInit("view")

NextView ==
  \/ ViewStart
  \/ Tick
  \/ DhtInvoke
  \/ DhtFail
  \/ \E t, h \in 1..MaxVal : DhtOk(t, h)
  \/ DhtGauges
  \/ OledRender
  \/ LcdRender
  \/ ServeHTTP

\* The sensor poller with the readers of the store around it: the two
\* displays' renders and the HTTP handlers, no shutdown.
SpecView == InitView /\ [][NextView]_vars

\* ------------------------------- the standalone LCD program's state
\* var state = struct{ Temperature, Humidity; IP; LastSensorUpdate }{} with
\* no mutex: dhtUpdater assigns its fields one by one, lcdUpdater and
\* serveHTTP read them while it does. The fields dhtUpdater assigns, in
\* program order:
BareOrder == <<"Temperature", "Humidity", "LastSensorUpdate">>

\* A successful sensor read of dhtUpdater: the i-th poll measures
\* NewReading(i, i, i) and starts assigning it.
BarePoll(s) ==
  /\ deployment = "bare"
  /\ wpc = "idle"
  /\ Cardinality(written) < MaxSets
  /\ s = NewReading(Cardinality(written) + 1, Cardinality(written) + 1,
                    Cardinality(written) + 1)
  /\ warg' = s
  /\ written' = written \cup {s}
  /\ wpc' = "copy"
  /\ wleft' = {BareOrder[i] : i \in 1..Len(BareOrder)}
  /\ UNCHANGED <<state, mu, rpc, rret, rleft, rfrom>>
  /\ UNCHANGED depVars

\* state.Temperature = temperature; state.Humidity = humidity;
\* state.LastSensorUpdate = time.Now() -- one assignment per step.
BareAssign ==
  /\ deployment = "bare"
  /\ wpc = "copy"
  /\ wleft # {}
  /\ LET i == CHOOSE j \in 1..Len(BareOrder) :
                /\ BareOrder[j] \in wleft
                /\ \A k \in 1..(j - 1) : BareOrder[k] \notin wleft
         f == BareOrder[i]
     IN /\ state' = [state EXCEPT ![f] = warg[f]]
        /\ wleft' = wleft \ {f}
  /\ UNCHANGED <<mu, wpc, warg, rpc, rret, rleft, written, rfrom>>
  /\ UNCHANGED depVars

\* The three assignments (and the gauges) are done; the poller waits.
BarePollDone ==
  /\ deployment = "bare"
  /\ wpc = "copy"
  /\ wleft = {}
  /\ wpc' = "idle"
  /\ warg' = ZeroState
  /\ UNCHANGED <<state, mu, wleft, rpc, rret, rleft, written, rfrom>>
  /\ UNCHANGED depVars

\* A tick of lcdUpdater, or serveHTTP's httpTemplate.Execute(w, state),
\* begins to read the struct.
BareRead(r) ==
  /\ deployment = "bare"
  /\ rpc[r] = "idle"
  /\ rpc' = [rpc EXCEPT ![r] = "copy"]
  /\ rleft' = [rleft EXCEPT ![r] = Fields]
  /\ rret' = [rret EXCEPT ![r] = ZeroState]
  /\ UNCHANGED <<state, mu, wpc, warg, wleft, written, rfrom>>
  /\ UNCHANGED depVars

\* One field is read: state.LastSensorUpdate, state.Temperature,
\* state.Humidity in lcdUpdater, the fields of the copy in serveHTTP.
BareReadField(r) ==
  /\ deployment = "bare"
  /\ rpc[r] = "copy"
  /\ rleft[r] # {}
  /\ \E f \in rleft[r] :
       /\ rret' = [rret EXCEPT ![r][f] = state[f]]
       /\ rleft' = [rleft EXCEPT ![r] = @ \ {f}]
  /\ UNCHANGED <<state, mu, wpc, warg, wleft, rpc, written, rfrom>>
  /\ UNCHANGED depVars

\* The reader has all the fields it uses: rret[r] is what it shows.
BareReadDone(r) ==
  /\ deployment = "bare"
  /\ rpc[r] = "copy"
  /\ rleft[r] = {}
  /\ rpc' = [rpc EXCEPT ![r] = "returned"]
  /\ UNCHANGED <<state, mu, wpc, warg, wleft, rret, rleft, written, rfrom>>
  /\ UNCHANGED depVars

InitBare == StoreInit /\ ProcInit("bare")

NextBare ==
  \/ \E s \in {NewReading(i, i, i) : i \in 1..MaxSets} : BarePoll(s)
  \/ BareAssign
  \/ BarePollDone
  \/ \E r \in Readers : BareRead(r)
  \/ \E r \in Readers : BareReadField(r)
  \/ \E r \in Readers : BareReadDone(r)
  \/ \E r \in Readers : GetDone(r)

\* The standalone LCD program: its poller and NumReaders readers of the
\* unguarded struct.
SpecBare == InitBare /\ [][NextBare]_vars

\* ---------------------------------------------------------------- C1
\* C1: every Get returns the zero-value State or exactly one of the values
\* passed to Set, whole: all four fields come from the same Set call.
C1_AtomicVisibility ==
  \A r \in Readers :
    rpc[r] = "returned" => rret[r] \in written \cup {ZeroState}

\* A Get has returned the first reading while the second Set is half-way
\* through overwriting the stored value.
C1_Witness ==
  \E r \in Readers :
    /\ rpc[r] = "returned"
    /\ rret[r] = Reading(1)
    /\ wpc = "copy"
    /\ wleft # {}
    /\ wleft # Fields

\* ---------------------------------------------------------------- C2
\* C2: a poll tick whose sensor read fails writes neither the store nor the
\* gauges: the only steps that change either are the two steps of a tick
\* whose read succeeded (state.Set, then the gauges), so from the start of
\* a failed tick to its end state.Get keeps returning the same State.
C2_WriteSkipOnFailure ==
  [][(state' # state \/ gauges' # gauges) =>
       /\ ~dhtErr'
       /\ \/ tpc["dht"] = "busy" /\ tpc'["dht"] = "gauges"
          \/ tpc["dht"] = "gauges" /\ tpc'["dht"] = "wait"]_vars

\* A tick has failed after an earlier one succeeded, and the earlier
\* reading is still stored and still shown by the gauges.
C2_Witness ==
  /\ tpc["dht"] = "wait"
  /\ dhtErr
  /\ state.LastSensorUpdate > 0
  /\ state.LastSensorUpdate < now
  /\ gauges.temp = state.Temperature

\* ---------------------------------------------------------------- C3
\* C3: RepeatUntilCancelled invokes f first thing on entry; every later
\* invocation starts from the select, after the previous call of f has
\* returned and a full interval has passed since that return; f is never
\* invoked while a call of f by the same task is in flight.
C3_RepeatUntilCancelled ==
  [][\A t \in Tasks :
       Repeats(t) =>
         /\ tpc[t] = "entry" => tpc'[t] \in {"entry", "busy"}
         /\ tcall'[t] # tcall[t] => tpc[t] \in {"entry", "wait"}
         /\ (tpc[t] = "wait" /\ tpc'[t] = "busy") =>
              now >= tret[t] + Interval(t)]_vars

\* f took longer than the interval, and the next call of f is in flight,
\* started a full interval or more after that long call returned.
C3_Witness ==
  \E t \in Tasks :
    /\ Repeats(t)
    /\ tpc[t] = "busy"
    /\ tdur[t] > Interval(t)
    /\ tcall[t] >= tret[t] + Interval(t)
    /\ ~ctxDone

\* ---------------------------------------------------------------- C5
\* C5: a display updater calls cleanup() at most once, only with the context
\* cancelled, and has called it exactly once when it returns; it returns
\* straight from cleanup(), and starts no display tick after cleanup().
C5_CleanupOnceLast ==
  /\ [](\A d \in Displays :
          /\ cleanups[d] <= 1
          /\ cleanups[d] > 0 => ctxDone
          /\ tpc[d] = "cleanup" => cleanups[d] = 1
          /\ tpc[d] = "done" => cleanups[d] = 1)
  /\ [][\A d \in Displays :
          /\ cleanups[d] > 0 => tpc'[d] # "busy"
          /\ (tpc'[d] = "done" /\ tpc[d] # "done") => tpc[d] = "cleanup"]_vars

\* Both display updaters have returned, each after one cleanup().
C5_Witness ==
  /\ tpc["lcd"] = "done"
  /\ tpc["oled"] = "done"
  /\ cleanups["lcd"] = 1
  /\ cleanups["oled"] = 1
  /\ busCloser = "closed"
  /\ i2cCloser = "closed"

\* ---------------------------------------------------------------- C4
\* C4: in the combined deployment, once the context is cancelled every
\* spawned activity eventually returns, unless an action in flight never
\* returns (display() ends the process in log.Fatal).
C4_CancellationTerminatesAll ==
  (deployment = "combined" /\ ctxDone) ~> (WgZero \/ proc = "fatal")

\* ---------------------------------------------------------------- C6
\* C6: in the combined deployment, once main has taken the trigger the
\* process does not exit before every spawned activity has returned.
C6_ExitOnlyAfterAllReturned ==
  (deployment = "combined" /\ ctxDone /\ proc # "running") => WgZero

\* ---------------------------------------------------------------- C7
\* The triggers fired so far: the OS signals and the auto-quit's send.
Triggers == sigs + (IF quitPc \in {"send", "done"} THEN 1 ELSE 0)

\* C7: however many triggers fire, cancel() is called at most once, and
\* exactly once by the time main is past its select; no display runs
\* cleanup() twice; a trigger left in the channel is never received.
C7_IdempotentCancel ==
  /\ [](/\ cancels <= 1
        /\ mainPc \in {"wgwait", "returned"} => cancels = 1 /\ ctxDone
        /\ ctxDone <=> cancels = 1
        /\ \A d \in Displays : cleanups[d] <= 1)
  /\ [][ctxDone => interrupted' >= interrupted]_vars

\* A signal and the auto-quit have both fired, the auto-quit's send has
\* completed, and main has returned after every activity returned.
C7_Witness ==
  /\ deployment = "combined"
  /\ sigs >= 1
  /\ quitPc = "done"
  /\ Triggers >= 2
  /\ cancels = 1
  /\ mainPc = "returned"
  /\ WgZero

\* ---------------------------------------------------------------- C8
\* C8: a fetch tick whose HTTP GET failed leaves the store as it was and
\* does not bring the process down: no step taken while that tick is past
\* its GET changes the store or ends in a panic.
C8_GetFailureSkipsTick ==
  [][(getErr /\ tpc["fetch"] = "decode") =>
       /\ state' = state
       /\ proc' # "panic"]_vars

\* ---------------------------------------------------------------- C9
\* C9: a fetch tick whose body fails to decode leaves the store as it was:
\* the step that ends such a tick does not change the stored State.
C9_DecodeFailureKeepsStore ==
  [][(tpc["fetch"] = "decode" /\ tpc'["fetch"] = "wait" /\ decErr') =>
       state' = state]_vars

\* ---------------------------------------------------------------- C10
\* The fields that Scenario D's body carries.
SensorFields == {"Temperature", "Humidity", "LastSensorUpdate"}

\* C10: when the GET succeeded and the body decoded, the tick ends with the
\* store holding, for every key the body carries, exactly the peer's value:
\* Temperature, Humidity and LastSensorUpdate are the peer's, whatever the
\* local clock says.
C10_FetchSetsVerbatim ==
  [][(/\ tpc["fetch"] = "decode"
      /\ tpc'["fetch"] = "wait"
      /\ ~getErr
      /\ ~decErr') =>
       \A f \in Fields : f \in resp.has => state'[f] = resp.val[f]]_vars

\* A tick has ended without error and the store holds a complete reading of
\* the peer whose LastSensorUpdate is earlier than the local clock.
C10_Witness ==
  /\ deployment = "client"
  /\ tpc["fetch"] = "wait"
  /\ ~getErr
  /\ ~decErr
  /\ \E v \in 1..MaxVal : \A f \in SensorFields : state[f] = Reading(v)[f]
  /\ state.LastSensorUpdate < now

\* ---------------------------------------------------------------- C11
\* The argument of the k-th Set call; before any Set the store holds the
\* zero value.
SetArg(k) == IF k = 0 THEN ZeroState ELSE Reading(k)

\* C11: a Get returns, whole, the argument of the last Set that had returned
\* when the Get was called or of a Set called since: exactly r when Set(r)
\* had returned and no Set was called since, the prior or the new State when
\* a Set overlaps it, the zero value when no Set was called.
C11_ReadAfterWrite ==
  \A r \in Readers :
    rpc[r] = "returned" =>
      \E k \in rfrom[r]..Cardinality(written) : rret[r] = SetArg(k)

\* A Get called after the second Set returned has returned that Set's
\* argument, not the first one's.
C11_Witness ==
  \E r \in Readers :
    /\ rpc[r] = "returned"
    /\ rfrom[r] = 2
    /\ Cardinality(written) = 2
    /\ rret[r] = Reading(2)

\* ---------------------------------------------------------------- C12
\* C12: in the deployment of src/main.go, once the trigger has cancelled
\* the context the process has not exited while an enabled display updater
\* has not finished its cleanup.
C12_MainGoExitAfterCleanup ==
  (deployment = "maingo" /\ ctxDone /\ proc = "exited") =>
    \A d \in Displays : tpc[d] \in {"off", "done"}

\* ---------------------------------------------------------------- C13
\* C13: in the client deployment the display's handle is released only
\* after the display-update task has stopped: once Cleanup has run, no call
\* of the updater is in flight and none can start.
C13_ReleaseAfterUpdaterStopped ==
  (deployment = "client" /\ busCloser = "closed") => tpc["upd"] = "done"

\* ---------------------------------------------------------------- C14
\* C14: while client.Run waits for a signal and the context is live, the
\* process is running and both periodic tasks are in their loops: neither
\* the fetcher nor the updater has stopped before the context is cancelled.
C14_RunsUntilCancelled ==
  (deployment = "client" /\ mainPc = "recv" /\ ~ctxDone) =>
    /\ proc = "running"
    /\ \A t \in {"fetch", "upd"} :
         tpc[t] \in {"entry", "busy", "decode", "wait"}

\* ---------------------------------------------------------------- C15
\* C15: a display tick never ends the process, whatever happens to its
\* writes: no step taken while a display updater's tick is in flight leaves
\* the process terminated by log.Fatal.
C15_RenderFailureOnlyLogged ==
  [][\A d \in Displays : tpc[d] = "busy" => proc' # "fatal"]_vars

\* ---------------------------------------------------------------- C16
\* C16: a display updater's cleanup() never brings the process down: no
\* step taken while a cleanup is in progress ends in a panic, also when
\* pioled.Initialize had failed and left dev and busCloser nil.
C16_CleanupNeverFatal ==
  [][\A d \in Displays : tpc[d] = "cleanup" => proc' # "panic"]_vars

\* ---------------------------------------------------------------- C17
\* C17: the store changes only in the step in which the poller (or, in a
\* client, the fetcher) calls state.Set; a display render or an HTTP
\* response leaves it as it was, so a Get before and a Get after it return
\* the same State.
C17_SoleWriter ==
  [][state' # state =>
       /\ \/ tpc["dht"] = "busy" /\ tpc'["dht"] = "gauges"
          \/ tpc["fetch"] = "decode" /\ tpc'["fetch"] = "wait"
       /\ shown' = shown
       /\ served' = served]_vars

\* Both displays have rendered the stored reading and an HTTP response has
\* been made from it, and the store still holds that reading.
C17_Witness ==
  /\ state.LastSensorUpdate > 0
  /\ shown["oled"].kind = "data"
  /\ shown["oled"].temp = state.Temperature
  /\ shown["lcd"].kind = "data"
  /\ shown["lcd"].age = now - state.LastSensorUpdate
  /\ served.sent
  /\ served.body = state

C19_StaleMarker ==
  [][(shown'["oled"] # shown["oled"] /\ state.LastSensorUpdate # 0) =>
       /\ shown'["oled"].kind = "data"
       /\ shown'["oled"].temp = state.Temperature
       /\ shown'["oled"].hum = state.Humidity
       /\ shown'["oled"].stale <=>
            now - state.LastSensorUpdate > StaleTime]_vars

\* The OLED shows a reading with the marker, rendered when the reading was
\* one clock unit older than StaleTime; the poller has failed since.
C19_Witness ==
  /\ shown["oled"].kind = "data"
  /\ shown["oled"].stale
  /\ shown["oled"].temp = state.Temperature
  /\ now - state.LastSensorUpdate = StaleTime + 1
  /\ dhtErr

\* ---------------------------------------------------------------- C20
\* C20: once a poll has succeeded, the temperature and humidity gauges equal
\* the stored Temperature and Humidity whenever the poller is not between
\* its state.Set and its gauge updates: at the end of that tick and of
\* every later tick, failed ones included.
C20_GaugesAgreeWithStore ==
  (state.LastSensorUpdate # 0 /\ tpc["dht"] # "gauges") =>
    /\ gauges.temp = state.Temperature
    /\ gauges.hum = state.Humidity

\* A poll has succeeded and a later one has failed; the gauges still
\* show the stored reading.
C20_Witness ==
  /\ tpc["dht"] = "wait"
  /\ dhtErr
  /\ state.Temperature > 0
  /\ state.Humidity > 0
  /\ gauges.temp = state.Temperature
  /\ gauges.hum = state.Humidity
  /\ gauges.last = state.LastSensorUpdate

\* ---------------------------------------------------------------- C21
\* C21: state.Get never blocks the writer: in no reachable state is a Set
\* call waiting in state.mu.Lock() while Get calls hold the read lock.
C21_GetNeverBlocksSet == ~(wpc = "lock" /\ mu.r > 0)

\* ---------------------------------------------------------------- C22
\* C22: in the combined deployment an initialisation failure stays with its
\* display: once main has run the initialisations and one display's has
\* failed (its handle is nil), the poller and the other enabled display
\* updater have been started.
C22_InitFailureContained ==
  /\ (deployment \in {"combined", "maingo"} /\ cfg.lcd /\ i2cCloser = "nil")
       => /\ tpc["dht"] # "off"
          /\ cfg.oled => tpc["oled"] # "off"
  /\ (deployment \in {"combined", "maingo"} /\ cfg.oled /\ dev = "nil")
       => /\ tpc["dht"] # "off"
          /\ cfg.lcd => tpc["lcd"] # "off"

\* ---------------------------------------------------------------- C23
\* C23: RepeatUntilCancelled starts no invocation of its action once the
\* context has been cancelled, however the cancellation interleaves with
\* the timer.
C23_NoInvocationAfterCancel ==
  [][\A t \in Tasks :
       (Repeats(t) /\ ctxDone) => ~(tpc[t] # "busy" /\ tpc'[t] = "busy")]_vars

\* ---------------------------------------------------------------- C24
\* C24: cancellation is not preemptive. The step that cancels the context
\* moves no task; a task whose invocation is in flight while the context is
\* cancelled stays in it or goes on to its select; and a task leaves its
\* loop (cleanup for a display updater, return for the others) only from
\* the select that follows the return of its invocation.
InFlight == {"busy", "gauges", "decode"}

C24_CancelNotPreemptive ==
  [][/\ ctxDone' # ctxDone => tpc' = tpc
     /\ \A t \in Tasks :
          /\ (ctxDone /\ tpc[t] \in InFlight)
               => tpc'[t] \in InFlight \cup {"wait"}
          /\ (tpc'[t] # tpc[t] /\ tpc'[t] = "cleanup") => tpc[t] = "wait"
          /\ (tpc'[t] # tpc[t] /\ tpc'[t] = "done")
               => tpc[t] = IF t \in Displays THEN "cleanup" ELSE "wait"]_vars

\* The context is cancelled and the poller has already returned, while a
\* render of the OLED is still in flight and its cleanup has not run.
C24_Witness ==
  /\ ctxDone
  /\ tpc["dht"] = "done"
  /\ tpc["oled"] = "busy"
  /\ cleanups["oled"] = 0
  /\ proc = "running"

\* ---------------------------------------------------------------- C25
\* C25: RepeatUntilCancelled, with a positive interval, starts at most one
\* invocation of its action after the context has been cancelled (exactly
\* one when it is entered with the context already cancelled).
C25_BoundedResponse == \A t \in Tasks : Repeats(t) => tlate[t] <= 1

\* ---------------------------------------------------------------- C26
\* C26: in the standalone LCD program a reader of the unguarded struct
\* never sees a partial update: what a display tick or an HTTP request
\* has read is the zero value or one poll's reading, whole.
C26_BareNoPartialUpdate ==
  \A r \in Readers :
    (deployment = "bare" /\ rpc[r] = "returned")
      => rret[r] \in written \cup {ZeroState}

\* ---------------------------------------------------------------- C27
\* C27: at the end of a successful poll tick the timestamp gauge equals the
\* LastSensorUpdate that the tick stored, however the clock advanced
\* during the tick.
C27_GaugeTimestampIsCaptureTime ==
  (tpc["dht"] = "wait" /\ ~dhtErr) => gauges.last = state.LastSensorUpdate

\* ---------------------------------------------------------------- C28
\* C28: in the server deployment, once a signal is in the channel the poll
\* loop eventually returns and the HTTP server is then shut down; the step
\* that shuts it down is taken only with the poll loop returned, and the
\* store does not change from then on.
ShutDown == proc \in {"exited", "panic"}

C28_ShutdownAfterPollLoop ==
  /\ [][(~ShutDown /\ ShutDown') => tpc["dht"] = "done"]_vars
  /\ [](ShutDown => tpc["dht"] = "done")
  /\ [][ShutDown => state' = state]_vars
  /\ (mainPc = "repeat" /\ interrupted > 0) ~> (ShutDown /\ ctxDone)

\* The server has been shut down after a poll that succeeded and a
\* cancellation: the loop has returned and the reading is still stored.
C28_Witness ==
  /\ deployment = "server"
  /\ proc = "exited"
  /\ mainPc = "returned"
  /\ ctxDone
  /\ tpc["dht"] = "done"
  /\ state.LastSensorUpdate > 0

\* ---------------------------------------------------------------- C29
\* C29: once the context passed to client.Run has been cancelled by its
\* owner, Run eventually returns to its caller (whose defers then run),
\* whether or not a signal is ever delivered -- unless the process has
\* died in the meantime.
C29_RunReturnsOnParentCancel ==
  (deployment = "client" /\ ctxDone /\ cancels = 0)
    ~> (mainPc # "recv" \/ proc # "running")

\* ---------------------------------------------------------------- C30
\* C30: a tick of lcd.Updater takes its snapshot once, at the top, and at
\* the end of the tick line 1 and line 3 agree with each other and with
\* that snapshot: both placeholders, or the freshness and the values of
\* the snapshot -- whatever has been Set in the meantime.
C30_LcdLinesFromOneSnapshot ==
  /\ []((deployment = "lcdtick" /\ tpc["lcd"] = "wait") =>
          /\ shown["lcd"].live <=> shown["lcd"].kind = "waiting"
          /\ shown["lcd"].kind = "waiting" <=> snap.LastSensorUpdate = 0
          /\ shown["lcd"].kind = "data" =>
               /\ shown["lcd"].temp = snap.Temperature
               /\ shown["lcd"].hum = snap.Humidity)
  /\ [][snap' # snap => (tpc["lcd"] = "busy" /\ tpc'["lcd"] = "line1")]_vars

\* A tick has ended showing both placeholders, from a snapshot taken
\* before the first reading was stored; the poller is just past its Set.
C30_Witness ==
  /\ deployment = "lcdtick"
  /\ tpc["lcd"] = "wait"
  /\ shown["lcd"].live
  /\ shown["lcd"].kind = "waiting"
  /\ snap = ZeroState
  /\ state.LastSensorUpdate # 0
  /\ tpc["dht"] = "gauges"

\* ---------------------------------------------------------------- C31
\* C31: the store does not deadlock. The lock is never held by a writer
\* together with a reader; it is held by exactly the goroutines that are
\* between their lock and their unlock, so every path releases it; and
\* under fair scheduling every Get and every Set that has been called
\* returns: no goroutine stays inside a call for ever.
C31_DeadlockFree ==
  /\ [](/\ ~(mu.w /\ mu.r > 0)
        /\ mu.w <=> wpc = "copy"
        /\ mu.r = Cardinality({r \in Readers : rpc[r] = "copy"})
        /\ mu.pending <=> wpc = "lock")
  /\ \A r \in Readers : []<>(rpc[r] \in {"idle", "returned"})
  /\ []<>(wpc = "idle" /\ ~mu.w)

\* Every Set has been made and has returned, every reader has come back
\* from a Get with the last value, and the lock is free.
C31_Witness ==
  /\ Cardinality(written) = MaxSets
  /\ wpc = "idle"
  /\ state = Reading(MaxSets)
  /\ mu = MuFree
  /\ \A r \in Readers : rpc[r] = "returned" /\ rret[r] = Reading(MaxSets)

====
